---- MODULE Spec2Model ----
(***************************************************************************)
(* Model of src/common/merge.ts of merge-me-action: the eligibility gate   *)
(* (tryMerge), the modification detector (getIsModified) over the          *)
(* paginated commit iterator, and the merge retry engine (mergeWithRetry,  *)
(* shouldRetry, merge).                                                    *)
(*                                                                         *)
(* One run of tryMerge is one behaviour.  The pull request snapshot and    *)
(* the configuration are fixed by Init; the executor (octokit.graphql) is  *)
(* the environment: every query and every mutation it answers is a         *)
(* nondeterministic choice made when the call is answered.                 *)
(*                                                                         *)
(* Spec explores whole runs.  SpecTraversal follows getIsModified alone    *)
(* over longer commit lists, and SpecEngine (SpecEngineFair with           *)
(* fairness) follows mergeWithRetry alone over more payloads and a wider   *)
(* range of maximumRetries.                                                *)
(***************************************************************************)
EXTENDS Integers, Sequences, FiniteSets, TLC

\* ------------------------------------------------------------------ bounds
MaxPages == 3
MaxCommits == 3
MaxRetries == 2
\* commits of the pull request when the traversal alone is explored
MaxSourceCommits == 5
\* range of maximumRetries when the retry engine alone is explored
MaxEngineRetries == 4

\* ------------------------------------------------------- program constants
\* exported by common/delay (imported at merge.ts line 17)
EXPONENTIAL_BACKOFF == 2
MINIMUM_WAIT_TIME == 1000

\* ------------------------------------------------------------ value domains
Undefined == "undefined"

MergeableStates == {"MERGEABLE", "CONFLICTING", "UNKNOWN"}
MergeStateStatuses == {Undefined, "CLEAN", "BLOCKED", "UNSTABLE"}
PullRequestStates == {"OPEN", "CLOSED", "MERGED"}
CommitHeadlines == {"Bump a", "Bump b"}
PullRequestIds == {"PR_1", "PR_2"}
\* reviewEdges: each edge is modelled by its node.state
ReviewEdgeLists ==
  { <<>>,
    <<"APPROVED">>,
    <<"APPROVED", "CHANGES_REQUESTED">>,
    <<"CHANGES_REQUESTED", "APPROVED">> }

\* commit.signature: null, {isValid: false} or {isValid: true}
Signatures == {"null", "invalid", "valid"}
\* commit.author: null, {user: null}, or {user: {login}}
NoAuthor == "author:null"
NoUser == "user:null"
Logins == {"dependabot", "mallory"}
Authors == {NoAuthor, NoUser} \cup Logins
PullRequestCommitNode == [signature : Signatures, author : Authors]
NoCommit == [signature |-> "none", author |-> "none"]

\* error.message of a failed mutation: a string is modelled as the sequence of
\* its sentences, so that String.prototype.includes is a search, not an equality
BaseModified == "Base branch was modified."
ErrorMessages ==
  { <<BaseModified, "Review and try the merge again.">>,
    <<"Pull request is in unstable status.">> }
NoError == <<>>
\* the settled value of a mutation that succeeded
Ok == <<"ok">>

VARIABLES
  \* PullRequestInformationContinuousIntegrationEnd and configuration
  mergeableState, merged, mergeStateStatus, pullRequestState,
  titleAllowed, reviewEdges, enabledForManualChanges, maximumRetries,
  commitMessageHeadline, pullRequestId,
  \* control
  pc, outcome, thrown,
  \* makeGraphqlIterator: generator state, and the executor's answers so far
  pages, pos, hasNextPage, cursor, queries, yielded,
  \* getIsModified
  firstResult, isModified,
  \* mergeWithRetry: the details object is the record `details` together with
  \* its fields retryCount and reviewEdge, which are variables of their own
  details, retryCount, reviewEdge, mutations, results, inFlight, delays, configReads,
  \* logging sink
  logs

snapshot == <<mergeableState, merged, mergeStateStatus, pullRequestState,
              titleAllowed, reviewEdges, enabledForManualChanges, maximumRetries,
              commitMessageHeadline, pullRequestId>>
iteratorVars == <<pages, pos, hasNextPage, cursor, queries, yielded>>
detectorVars == <<firstResult, isModified>>
engineVars == <<details, retryCount, reviewEdge, mutations, results, inFlight, delays,
                configReads>>
vars == <<snapshot, pc, outcome, thrown, iteratorVars, detectorVars, engineVars, logs>>

Log(level, message) == [level |-> level, message |-> message, count |-> 0, error |-> NoError]
LogCount(level, message, n) == [level |-> level, message |-> message, count |-> n, error |-> NoError]
LogError(level, message, e) == [level |-> level, message |-> message, count |-> 0, error |-> e]

\* the details object before tryMerge builds it
NoDetails == [commitHeadline |-> "none", pullRequestId |-> "none", maximumRetries |-> 0]

\* ------------------------------------------------------------------- Init
InitRun ==
  /\ pc = "tryMerge"
  /\ outcome = "running"
  /\ thrown = "none"
  /\ pages = <<>>
  /\ pos = 1
  /\ hasNextPage = TRUE
  /\ cursor = 0
  /\ queries = <<>>
  /\ yielded = <<>>
  /\ firstResult = NoCommit
  /\ isModified = "pending"
  /\ details = NoDetails
  /\ retryCount = 0
  /\ reviewEdge = Undefined
  /\ mutations = <<>>
  /\ results = <<>>
  /\ inFlight = 0
  /\ delays = <<>>
  /\ configReads = 0
  /\ logs = <<>>

Init ==
  /\ mergeableState \in MergeableStates
  /\ merged \in BOOLEAN
  /\ mergeStateStatus \in MergeStateStatuses
  /\ pullRequestState \in PullRequestStates
  /\ titleAllowed \in BOOLEAN
  /\ reviewEdges \in ReviewEdgeLists
  /\ enabledForManualChanges \in BOOLEAN
  /\ maximumRetries \in -1 .. MaxRetries
  /\ commitMessageHeadline = "Bump a"
  /\ pullRequestId = "PR_1"
  /\ InitRun

\* ------------------------------------------------------- Eligibility gate
\* mutant: SkipReason without the mergeStateStatus precondition
SkipReasonIgnoringMergeStateStatus ==
  IF mergeableState # "MERGEABLE" THEN "notMergeable"
  ELSE IF merged THEN "alreadyMerged"
  ELSE IF pullRequestState # "OPEN" THEN "notOpen"
  ELSE IF titleAllowed = FALSE THEN "presetDisallowed"
  ELSE "none"

\* mutant: the merged flag tested before mergeableState
SkipReasonMergedFirst ==
  IF merged THEN "alreadyMerged"
  ELSE IF mergeableState # "MERGEABLE" THEN "notMergeable"
  ELSE IF mergeStateStatus # Undefined /\ mergeStateStatus # "CLEAN" THEN "notClean"
  ELSE IF pullRequestState # "OPEN" THEN "notOpen"
  ELSE IF titleAllowed = FALSE THEN "presetDisallowed"
  ELSE "none"

\* mutant: an absent mergeStateStatus blocks like a value other than CLEAN
SkipReasonBlockingWhenAbsent ==
  IF mergeableState # "MERGEABLE" THEN "notMergeable"
  ELSE IF merged THEN "alreadyMerged"
  ELSE IF mergeStateStatus # "CLEAN" THEN "notClean"
  ELSE IF pullRequestState # "OPEN" THEN "notOpen"
  ELSE IF titleAllowed = FALSE THEN "presetDisallowed"
  ELSE "none"

\* The first failing precondition of the if/else-if chain that is decided
\* without the executor, or "none".
SkipReason ==
  IF mergeableState # "MERGEABLE" THEN "notMergeable"
  ELSE IF merged THEN "alreadyMerged"
  ELSE IF mergeStateStatus # Undefined /\ mergeStateStatus # "CLEAN" THEN "notClean"
  ELSE IF pullRequestState # "OPEN" THEN "notOpen"
  ELSE IF titleAllowed = FALSE THEN "presetDisallowed"
  ELSE "none"

\* reviewEdges[0]
FirstReviewEdge(edges) == IF Len(edges) = 0 THEN Undefined ELSE edges[1]

\* the else branch of tryMerge: mergeWithRetry is entered with retryCount 1
HandOff(entries) ==
  /\ details' = [commitHeadline |-> commitMessageHeadline,
                 pullRequestId |-> pullRequestId,
                 maximumRetries |-> maximumRetries]
  /\ retryCount' = 1
  /\ reviewEdge' = FirstReviewEdge(reviewEdges)
  /\ pc' = "merge"
  /\ logs' = logs \o entries
  /\ UNCHANGED <<outcome, thrown, mutations, results, inFlight, delays, configReads>>

\* tryMerge's promise fulfils
Return(entries) ==
  /\ pc' = "done"
  /\ outcome' = "returned"
  /\ logs' = logs \o entries
  /\ UNCHANGED thrown

\* an error raised under getIsModified: neither getIsModified nor tryMerge has
\* a try block around it, so tryMerge's promise rejects with it
Throw(error) ==
  /\ pc' = "done"
  /\ outcome' = "threw"
  /\ thrown' = error

TryMerge ==
  /\ pc = "tryMerge"
  /\ IF SkipReason # "none"
       THEN /\ Return(<<Log("info", SkipReason)>>)
            /\ UNCHANGED <<iteratorVars, detectorVars, engineVars>>
       ELSE IF enabledForManualChanges = FALSE
         THEN /\ pc' = "first"
              /\ UNCHANGED <<outcome, thrown, logs, iteratorVars, detectorVars, engineVars>>
         ELSE /\ HandOff(<<>>)
              /\ UNCHANGED <<iteratorVars, detectorVars>>
  /\ UNCHANGED snapshot

\* ------------------------------------------------ makeGraphqlIterator
\* The async generator behind iterator.next() and for-await: the page it is
\* yielding from, the position in it, the last pageInfo.  A page is recorded
\* by its length and pageInfo; the fields of a node are read by nobody before
\* the generator yields it, so they are drawn at that moment.
CurrentSize == IF pages = <<>> THEN 0 ELSE pages[Len(pages)].size
\* mutant: the buffer taken for exhausted one node early
BufferExhaustedEarly == pos >= CurrentSize

BufferExhausted == pos > CurrentSize

RECURSIVE TotalSize(_)
TotalSize(ps) == IF ps = <<>> THEN 0 ELSE ps[1].size + TotalSize(Tail(ps))

\* the number of nodes the executor has returned so far
Fetched == TotalSize(pages)

\* the commits the generator has yielded so far, in the order of the yields
Commits == [i \in 1 .. Len(yielded) |-> yielded[i].commit]

\* the node the generator yields next, carrying `commit`
Node(commit) == [page |-> Len(pages), index |-> pos, commit |-> commit]

\* what the executor may answer to the next commit query, when the pull
\* request has at most `limit` commits
PageResponses(limit) ==
  [ size : 0 .. (limit - Fetched),
    hasNextPage : IF Len(pages) + 1 < MaxPages THEN BOOLEAN ELSE {FALSE},
    endCursor : {Len(pages) + 1} ]

\* The generator needs a page: it queries the executor with the cursor of the
\* previous page.  The query may reject, the response may lack the commit
\* list (extractListFunction yields undefined), or a page arrives.
FetchPageWithin(limit) ==
  /\ pc \in {"first", "loop"}
  /\ BufferExhausted
  /\ hasNextPage
  /\ queries' = Append(queries, cursor)
  /\ \/ /\ Throw("queryRejected")
        /\ UNCHANGED <<pages, pos, hasNextPage, cursor>>
     \/ /\ Throw("invalidResponse")
        /\ UNCHANGED <<pages, pos, hasNextPage, cursor>>
     \/ \E page \in PageResponses(limit) :
          /\ pages' = Append(pages, page)
          /\ pos' = 1
          /\ hasNextPage' = page.hasNextPage
          /\ cursor' = page.endCursor
          /\ UNCHANGED <<pc, outcome, thrown>>
  /\ UNCHANGED <<snapshot, yielded, detectorVars, engineVars, logs>>

FetchPage == FetchPageWithin(MaxCommits)

\* ------------------------------------------------------- getIsModified
\* mutant: the author comparison left out of the loop body
ExamineIgnoringAuthor(commit, first) ==
  IF commit.signature = "null" \/ commit.signature # "valid" THEN "badSignature"
  ELSE IF commit.author \in {NoAuthor, NoUser} THEN "typeError"
  ELSE IF first.author \in {NoAuthor, NoUser} THEN "typeError"
  ELSE "continue"

\* mutant: signature.isValid === true taken for the bad case
ExamineValidityInverted(commit, first) ==
  IF commit.signature = "null" \/ commit.signature = "valid" THEN "badSignature"
  ELSE IF commit.author \in {NoAuthor, NoUser} THEN "typeError"
  ELSE IF first.author \in {NoAuthor, NoUser} THEN "typeError"
  ELSE IF commit.author # first.author THEN "authorDiffers"
  ELSE "continue"

\* The verdict of the loop body on one commit, given the first commit.
Examine(commit, first) ==
  IF commit.signature = "null" \/ commit.signature # "valid" THEN "badSignature"
  ELSE IF commit.author \in {NoAuthor, NoUser} THEN "typeError"
  ELSE IF first.author \in {NoAuthor, NoUser} THEN "typeError"
  ELSE IF commit.author # first.author THEN "authorDiffers"
  ELSE "continue"

\* mutant: an empty traversal taken for "not modified"
NoCommitsVerdictFalse == "false"

\* firstResult.done === true: the traversal is over before the first commit
NoCommitsVerdict == "true"

\* getIsModified returns `value` after logging `entries`; tryMerge resumes in
\* its else-if chain: the sixth precondition, then the hand-off
Resolve(value, entries) ==
  /\ isModified' = value
  /\ IF value = "true"
       THEN /\ Return(entries \o <<Log("info", "notByAuthor")>>)
            /\ UNCHANGED engineVars
       ELSE HandOff(entries)

\* const firstResult = await iterator.next()
FirstResult ==
  /\ pc = "first"
  /\ ~(BufferExhausted /\ hasNextPage)
  /\ IF BufferExhausted
       THEN /\ Resolve(NoCommitsVerdict, <<Log("warning", "noCommits")>>)
            /\ UNCHANGED <<firstResult, pos, yielded>>
       ELSE \E commit \in PullRequestCommitNode :
            /\ yielded' = Append(yielded, Node(commit))
            /\ firstResult' = commit
            /\ pos' = pos + 1
            /\ pc' = "loop"
            /\ UNCHANGED <<isModified, outcome, thrown, logs, engineVars>>
  /\ UNCHANGED <<snapshot, pages, hasNextPage, cursor, queries>>

\* one turn of for await (const commitNode of iterator)
LoopStep ==
  /\ pc = "loop"
  /\ ~(BufferExhausted /\ hasNextPage)
  /\ IF BufferExhausted
       THEN /\ Resolve("false", <<>>)
            /\ UNCHANGED <<pos, yielded>>
       ELSE \E commit \in PullRequestCommitNode :
            LET verdict == Examine(commit, firstResult) IN
            /\ yielded' = Append(yielded, Node(commit))
            /\ pos' = pos + 1
            /\ CASE verdict = "badSignature" ->
                      Resolve("true", <<Log("warning", "badSignature")>>)
                 [] verdict = "authorDiffers" ->
                      Resolve("true", <<>>)
                 [] verdict = "typeError" ->
                      /\ Throw("TypeError")
                      /\ UNCHANGED <<isModified, logs, engineVars>>
                 [] OTHER ->
                      /\ UNCHANGED <<pc, outcome, thrown, isModified, logs, engineVars>>
  /\ UNCHANGED <<snapshot, pages, hasNextPage, cursor, queries, firstResult>>

\* ------------------------------------------------------ merge retry engine
Includes(message, needle) == \E i \in 1 .. Len(message) : message[i] = needle

\* mutant: the variants swapped
MutationForSwapped(edge) == IF edge = Undefined THEN "mergeOnly" ELSE "approveAndMerge"

MutationFor(edge) == IF edge = Undefined THEN "approveAndMerge" ELSE "mergeOnly"

\* mutant: every error is taken to be retryable
IsRetryableErrorAny(message) == Len(message) > 0

IsRetryableError(message) == Includes(message, BaseModified)

\* mutant: retryCount >= maximumRetries instead of retryCount > maximumRetries
RetriesExhaustedOffByOne(message, count, maximum) ==
  (\E i \in 1 .. Len(message) : message[i] = BaseModified) /\ count >= maximum

\* mutant: a negative maximumRetries counted by its magnitude
RetriesExhaustedByMagnitude(message, count, maximum) ==
  IsRetryableError(message) /\ count > (IF maximum < 0 THEN 0 - maximum ELSE maximum)

RetriesExhausted(message, count, maximum) ==
  IsRetryableError(message) /\ count > maximum

ShouldRetry(message, count, maximum) ==
  IF RetriesExhausted(message, count, maximum) THEN FALSE
  ELSE IsRetryableError(message)

\* mutant: the retry count multiplied by the exponent instead of raised to it
NextRetryInLinear(count) == (count * EXPONENTIAL_BACKOFF) * MINIMUM_WAIT_TIME

NextRetryIn(count) == (count ^ EXPONENTIAL_BACKOFF) * MINIMUM_WAIT_TIME

\* mutant: the retry is made without waiting
NoDelayBeforeRetry(taken, count) == taken

\* await delay(nextRetryIn): the delays taken so far, and the one after the
\* failed attempt numbered `count`
DelayBeforeRetry(taken, count) == Append(taken, NextRetryIn(count))

\* mutant: the debug entry does not carry the error that was caught
GaveUpWithoutError(message) ==
  << Log("info", "mustRebase"), LogError("debug", "originalError", NoError) >>

\* log entries of the catch block when shouldRetry is false
GaveUp(message) ==
  << Log("info", "mustRebase"), LogError("debug", "originalError", message) >>

\* mutant: the frames that awaited the recursive call fall through to the gave-up
\* report instead of returning
UnwindFallsThrough(count, message) ==
  IF count > 1
    THEN << Log("info", "mustRebase"), LogError("debug", "originalError", message) >>
    ELSE <<>>

\* what the enclosing mergeWithRetry frames log when the recursive call they
\* awaited returns: each of the (count - 1) frames executes "return;"
Unwind(count, message) == <<>>

\* retryCount: retryCount + 1
NextRetryCount(count) == count + 1

\* mutant: the retry is called with a rewritten payload
RetryDetailsRewritten(d) ==
  [d EXCEPT !.commitHeadline = "retry", !.pullRequestId = "retry"]

\* { ...details, maximumRetries }: the details of the recursive call, but for
\* retryCount
RetryDetails(d) == [d EXCEPT !.maximumRetries = d.maximumRetries]

\* merge(): resolve the merge method, pick the mutation, call the executor
Merge ==
  /\ pc = "merge"
  /\ configReads' = configReads + 1
  /\ mutations' = Append(mutations,
        [mutation |-> MutationFor(reviewEdge),
         commitHeadline |-> details.commitHeadline,
         pullRequestId |-> details.pullRequestId,
         maximumRetries |-> details.maximumRetries,
         retryCount |-> retryCount])
  /\ inFlight' = inFlight + 1
  /\ pc' = "mutation"
  /\ UNCHANGED <<snapshot, outcome, thrown, iteratorVars, detectorVars,
                 details, retryCount, reviewEdge, results, delays, logs>>

\* the mutation settles: try block done, or the catch block of mergeWithRetry
MutationSettles ==
  /\ pc = "mutation"
  /\ inFlight' = inFlight - 1
  /\ \/ /\ results' = Append(results, Ok)
        /\ Return(Unwind(retryCount, NoError))
        /\ UNCHANGED delays
     \/ \E message \in ErrorMessages :
          LET exhausted ==
                IF RetriesExhausted(message, retryCount, details.maximumRetries)
                  THEN <<LogCount("info", "retriesExhausted", retryCount)>>
                  ELSE <<>>
          IN /\ results' = Append(results, message)
             /\ IF ShouldRetry(message, retryCount, details.maximumRetries)
                  THEN /\ logs' = logs \o exhausted \o
                             <<LogCount("info", "retrying", NextRetryIn(retryCount))>>
                       /\ delays' = DelayBeforeRetry(delays, retryCount)
                       /\ pc' = "delay"
                       /\ UNCHANGED <<outcome, thrown>>
                  ELSE /\ Return(exhausted \o GaveUp(message) \o
                                 Unwind(retryCount, message))
                       /\ UNCHANGED delays
  /\ UNCHANGED <<snapshot, iteratorVars, detectorVars,
                 details, retryCount, reviewEdge, mutations, configReads>>

\* await delay(nextRetryIn) is over: mergeWithRetry calls itself
DelayElapses ==
  /\ pc = "delay"
  /\ details' = RetryDetails(details)
  /\ retryCount' = NextRetryCount(retryCount)
  /\ pc' = "merge"
  /\ UNCHANGED <<snapshot, outcome, thrown, iteratorVars, detectorVars,
                 reviewEdge, mutations, results, inFlight, delays, configReads, logs>>

\* ------------------------------------------------------------------- Next
Next ==
  \/ TryMerge
  \/ FetchPage
  \/ FirstResult
  \/ LoopStep
  \/ Merge
  \/ MutationSettles
  \/ DelayElapses

Spec == Init /\ [][Next]_vars

\* ---------------------------------------------------- the traversal alone
\* One eligible snapshot whose sixth precondition calls getIsModified; the
\* pull request may have up to MaxSourceCommits commits.  The run is followed
\* until getIsModified returns or throws.
InitTraversal ==
  /\ mergeableState = "MERGEABLE"
  /\ merged = FALSE
  /\ mergeStateStatus = "CLEAN"
  /\ pullRequestState = "OPEN"
  /\ titleAllowed = TRUE
  /\ reviewEdges = <<>>
  /\ enabledForManualChanges = FALSE
  /\ maximumRetries = 0
  /\ commitMessageHeadline = "Bump a"
  /\ pullRequestId = "PR_1"
  /\ InitRun

FetchSourcePage == FetchPageWithin(MaxSourceCommits)

NextTraversal ==
  \/ TryMerge
  \/ FetchSourcePage
  \/ FirstResult
  \/ LoopStep

SpecTraversal == InitTraversal /\ [][NextTraversal]_vars

\* ------------------------------------------------- the retry engine alone
\* Eligible snapshots with ENABLED_FOR_MANUAL_CHANGES 'true': tryMerge goes
\* straight to mergeWithRetry.  The payload and maximumRetries range wider.
InitEngine ==
  /\ mergeableState = "MERGEABLE"
  /\ merged = FALSE
  /\ mergeStateStatus \in {Undefined, "CLEAN"}
  /\ pullRequestState = "OPEN"
  /\ titleAllowed = TRUE
  /\ reviewEdges \in ReviewEdgeLists
  /\ enabledForManualChanges = TRUE
  /\ maximumRetries \in (0 - MaxEngineRetries) .. MaxEngineRetries
  /\ commitMessageHeadline \in CommitHeadlines
  /\ pullRequestId \in PullRequestIds
  /\ InitRun

NextEngine ==
  \/ TryMerge
  \/ Merge
  \/ MutationSettles
  \/ DelayElapses

SpecEngine == InitEngine /\ [][NextEngine]_vars

\* every awaited promise settles: the executor answers each mutation, each
\* delay timer fires, and a continuation that can run does run
SpecEngineFair == SpecEngine /\ WF_vars(NextEngine)

\* ================================================================ claims
Last(q) == q[Len(q)]

\* the failure that shouldRetry treats as transient, read off the message
Transient(message) == \E i \in DOMAIN message : message[i] = "Base branch was modified."
Failed(result) == result # Ok

\* the last two log entries are the gave-up report carrying `message`
GaveUpReported(message) ==
  /\ Len(logs) >= 2
  /\ logs[Len(logs) - 1].level = "info"
  /\ logs[Len(logs) - 1].message = "mustRebase"
  /\ Last(logs).level = "debug"
  /\ Last(logs).message = "originalError"
  /\ Last(logs).error = message

NoGaveUpLogged == \A i \in DOMAIN logs : logs[i].message # "mustRebase"

\* one of the six gate preconditions, as the claim lists them, fails
GatePreconditionFails ==
  \/ mergeableState # "MERGEABLE"
  \/ merged = TRUE
  \/ (mergeStateStatus # "undefined" /\ mergeStateStatus # "CLEAN")
  \/ pullRequestState # "OPEN"
  \/ titleAllowed = FALSE
  \/ (enabledForManualChanges = FALSE /\ isModified = "true")

\* C1: whenever one of the six gate preconditions fails, the run has issued
\* no merge mutation, at any point of the run.
C1_NoMutationWhenGateFails ==
  GatePreconditionFails => (mutations = <<>> /\ inFlight = 0 /\ results = <<>>)

\* a run that ended skipped by the sixth precondition, every other one passing
C1_Witness ==
  /\ pc = "done"
  /\ outcome = "returned"
  /\ mergeableState = "MERGEABLE" /\ merged = FALSE /\ mergeStateStatus = "CLEAN"
  /\ pullRequestState = "OPEN" /\ titleAllowed = TRUE
  /\ enabledForManualChanges = FALSE
  /\ isModified = "true"
  /\ Len(Commits) = 2
  /\ mutations = <<>>

\* C2: no error escapes tryMerge: the run never ends with a rejected promise.
C2_NeverThrows == outcome # "threw"

\* C3: with maximumRetries = N >= 0 and every attempt failing with the
\* transient message, attempts carry retryCount 1, 2, ... and never exceed
\* N + 1; the run ends after exactly N + 1 mutation calls with the gave-up
\* report.
AllTransient == \A i \in DOMAIN results : Failed(results[i]) /\ Transient(results[i])

C3_ExactlyNPlusOneAttempts ==
  (maximumRetries >= 0 /\ AllTransient) =>
    /\ Len(mutations) <= maximumRetries + 1
    /\ \A i \in DOMAIN mutations : mutations[i].retryCount = i
    /\ (pc = "delay" => Len(results) <= maximumRetries)
    /\ (pc = "done" /\ results # <<>> =>
          /\ Len(mutations) = maximumRetries + 1
          /\ Len(results) = maximumRetries + 1
          /\ outcome = "returned"
          /\ GaveUpReported(Last(results)))

\* maximumRetries = 2: three transient failures, then gave-up
C3_Witness ==
  /\ pc = "done"
  /\ maximumRetries = 2
  /\ Len(results) = 3
  /\ AllTransient
  /\ Len(mutations) = 3
  /\ GaveUpReported(Last(results))

\* C4: when attempts 1..k fail and attempt k+1 succeeds (k >= 1), then
\* k <= maximumRetries, exactly k+1 mutation calls and k delays have happened,
\* the run has returned, nothing further can happen, and no gave-up report
\* was logged.
C4_SuccessAfterRetries ==
  (Len(results) >= 2 /\ Last(results) = Ok) =>
    LET k == Len(results) - 1 IN
    /\ \A i \in 1 .. k : Failed(results[i]) /\ Transient(results[i])
    /\ k <= maximumRetries
    /\ Len(mutations) = k + 1
    /\ Len(delays) = k
    /\ inFlight = 0
    /\ pc = "done"
    /\ outcome = "returned"
    /\ NoGaveUpLogged
    /\ ~ENABLED Next

\* one transient failure, then success: exactly two calls
C4_Witness ==
  /\ Len(results) = 2
  /\ Failed(results[1]) /\ Transient(results[1])
  /\ results[2] = Ok
  /\ Len(mutations) = 2
  /\ pc = "done"

\* C5: when an attempt fails with a message that does not contain the
\* transient phrase, the run is over at once: it has returned with the
\* gave-up report for that error, no delay followed the failure, and no
\* further mutation call is possible.
C5_NonTransientStopsImmediately ==
  (results # <<>> /\ Failed(Last(results)) /\ ~Transient(Last(results))) =>
    /\ pc = "done"
    /\ outcome = "returned"
    /\ Len(mutations) = Len(results)
    /\ Len(delays) = Len(results) - 1
    /\ inFlight = 0
    /\ GaveUpReported(Last(results))
    /\ ~ENABLED Next

\* a retried attempt (the second one) fails with another error, retries left
C5_Witness ==
  /\ Len(results) = 2
  /\ Failed(Last(results)) /\ ~Transient(Last(results))
  /\ retryCount = 2
  /\ maximumRetries = 2
  /\ pc = "done"

\* C6: every mutation call of a run uses the approve-and-merge variant when
\* reviewEdges is empty and the merge-only variant when it is not, and the
\* edge handed to the engine is the first edge.
C6_VariantFromFirstEdge ==
  /\ \A i \in DOMAIN mutations :
       mutations[i].mutation =
         IF Len(reviewEdges) = 0 THEN "approveAndMerge" ELSE "mergeOnly"
  /\ (pc \in {"merge", "mutation", "delay"} =>
        reviewEdge = IF Len(reviewEdges) = 0 THEN "undefined" ELSE reviewEdges[1])

\* two edges, and the merge was attempted twice with the merge-only variant
C6_Witness ==
  /\ Len(reviewEdges) = 2
  /\ Len(mutations) = 2
  /\ mutations[2].mutation = "mergeOnly"

\* ------------------------------------------------- modification detector
DetectorReturned == isModified # "pending"

\* C7: whenever the detector returns and some commit of the sequence it
\* traversed has a null signature or one not marked valid, it returns true; the
\* first commit counts like every other.
C7_BadSignatureMeansModified ==
  (DetectorReturned /\ \E i \in DOMAIN Commits : Commits[i].signature # "valid")
    => isModified = "true"

\* commit i carries a login, the first commit carries one, and they differ
LoginDiffers(i) ==
  /\ Commits[1].author \in Logins
  /\ Commits[i].author \in Logins
  /\ Commits[i].author # Commits[1].author

\* C8: once the traversal has handed the loop a commit whose author login
\* differs from the first commit's login, the detector has returned true at
\* that commit: no commit was taken after it, it lies in the last page that
\* was ever requested, and no commit query is issued afterwards, also when
\* that page said hasNextPage.
C8_AuthorDiffersShortCircuits ==
  \A i \in 2 .. Len(yielded) :
    LoginDiffers(i) =>
      /\ isModified = "true"
      /\ pc \notin {"first", "loop"}
      /\ i = Len(yielded)
      /\ yielded[i].page = Len(pages)
      /\ Len(queries) = Len(pages)

\* the second commit, on the second page, differs; a third page exists
C8_Witness ==
  /\ pc = "done"
  /\ Len(yielded) = 2
  /\ LoginDiffers(2)
  /\ Commits[2].signature = "valid"
  /\ Len(pages) = 2
  /\ hasNextPage = TRUE
  /\ Len(queries) = 2
  /\ isModified = "true"

\* C9: when the traversal ends before yielding any commit, the detector
\* returns true with its warning, and tryMerge skips the pull request: no
\* mutation is issued and the run returns with the not-by-author reason.
C9_NoCommitsMeansModified ==
  (DetectorReturned /\ yielded = <<>>) =>
    /\ isModified = "true"
    /\ enabledForManualChanges = FALSE
    /\ \E i \in DOMAIN logs : logs[i] = Log("warning", "noCommits")
    /\ mutations = <<>>
    /\ pc = "done"
    /\ outcome = "returned"
    /\ Last(logs) = Log("info", "notByAuthor")

\* the first page is empty and has no next page
C9_Witness ==
  /\ pc = "done"
  /\ Len(pages) = 1
  /\ Fetched = 0
  /\ hasNextPage = FALSE
  /\ isModified = "true"
  /\ mutations = <<>>

\* every commit has a valid signature and the author of the first commit
AllCommitsUnmodified ==
  \A i \in DOMAIN Commits :
    Commits[i].signature = "valid" /\ Commits[i].author = Commits[1].author

\* C10: when the detector returns on a non-empty sequence all of whose commits
\* have a valid signature and the first commit's author, it returns false, and
\* only after the last page (hasNextPage false) was consumed to its end.
C10_UnmodifiedMeansFalse ==
  (DetectorReturned /\ Commits # <<>> /\ AllCommitsUnmodified) =>
    /\ isModified = "false"
    /\ hasNextPage = FALSE
    /\ Len(yielded) = Fetched
    /\ Len(queries) = Len(pages)

\* two commits on two pages, both valid and by the same author
C10_Witness ==
  /\ isModified = "false"
  /\ Len(pages) = 2
  /\ Len(Commits) = 2
  /\ pages[1].size = 1
  /\ AllCommitsUnmodified
  /\ pc = "done"

\* ---------------------------------------------------- paginated fetcher
\* the generator reported done: the consumer took the whole sequence
FullyConsumed == isModified = "false" \/ (isModified = "true" /\ yielded = <<>>)

\* the number of nodes on the pages before page p
NodesBefore(p) == TotalSize(SubSeq(pages, 1, p - 1))

\* C11: the fetcher yields the nodes of the pages in source order, each once
\* (the k-th yield is the k-th node counted page by page); the first query
\* carries no cursor (0) and every later one the endCursor of the page before
\* it; a page is queried only when every node of the pages before it has been
\* yielded and the page before it said hasNextPage; and when the sequence was
\* consumed in full over n pages, the last page said hasNextPage = false, every
\* node of every page was yielded and exactly n queries were issued.
C11_FetcherYieldsEveryNodeOnce ==
  /\ \A i \in DOMAIN queries :
       queries[i] = IF i = 1 THEN 0 ELSE pages[i - 1].endCursor
  /\ \A k \in DOMAIN yielded :
       /\ yielded[k].page \in DOMAIN pages
       /\ yielded[k].index \in 1 .. pages[yielded[k].page].size
       /\ k = NodesBefore(yielded[k].page) + yielded[k].index
  /\ \A i \in 1 .. Len(pages) - 1 : pages[i].hasNextPage = TRUE
  /\ Len(pages) >= 1 => Len(yielded) >= NodesBefore(Len(pages))
  /\ Len(queries) \in {Len(pages), Len(pages) + 1}
  /\ Len(queries) > Len(pages) => Len(yielded) = Fetched
  /\ FullyConsumed =>
       /\ Len(pages) >= 1
       /\ pages[Len(pages)].hasNextPage = FALSE
       /\ Len(yielded) = Fetched
       /\ Len(queries) = Len(pages)

\* pages of sizes 2, 2, 1 consumed in full: 5 nodes, 3 queries
C11_Witness ==
  /\ FullyConsumed
  /\ Len(pages) = 3
  /\ pages[1].size = 2 /\ pages[2].size = 2 /\ pages[3].size = 1
  /\ Len(yielded) = 5
  /\ Len(queries) = 3

\* ------------------------------------------------------ eligibility gate
\* preconditions 1, 2, 4 and 5 pass
OtherPreconditionsPass ==
  /\ mergeableState = "MERGEABLE"
  /\ merged = FALSE
  /\ pullRequestState = "OPEN"
  /\ titleAllowed = TRUE

\* the skip reasons of preconditions 1 to 5
EarlySkipReasons ==
  {"notMergeable", "alreadyMerged", "notClean", "notOpen", "presetDisallowed"}

\* mergeWithRetry has been entered
HandedOff == retryCount >= 1

\* C12: once the gate has run on a snapshot whose preconditions 1, 2, 4 and 5
\* pass, an absent mergeStateStatus and CLEAN have the same outcome: no skip
\* reason of preconditions 1-5 is logged, and the run is handed to the retry
\* engine exactly when the sixth precondition passes; every present value
\* other than CLEAN ends the run with the not-clean skip reason alone, no
\* commit query and no mutation.
C12_AbsentStatusDoesNotBlock ==
  (OtherPreconditionsPass /\ pc # "tryMerge") =>
    IF mergeStateStatus = "undefined" \/ mergeStateStatus = "CLEAN"
      THEN /\ \A i \in DOMAIN logs : logs[i].message \notin EarlySkipReasons
           /\ (enabledForManualChanges \/ isModified = "false") => HandedOff
           /\ HandedOff => (enabledForManualChanges \/ isModified = "false")
           /\ HandedOff /\ pc = "done" => Len(mutations) >= 1
      ELSE /\ pc = "done"
           /\ outcome = "returned"
           /\ logs = <<Log("info", "notClean")>>
           /\ ~HandedOff
           /\ queries = <<>>
           /\ mutations = <<>>

\* mergeStateStatus absent, and the pull request was merged
C12_Witness ==
  /\ mergeStateStatus = "undefined"
  /\ OtherPreconditionsPass
  /\ pc = "done"
  /\ HandedOff
  /\ Len(results) = 1
  /\ results[1] = Ok

\* ------------------------------------------------------- absent authors
\* commit i has no author object, or an author without a user
AuthorAbsent(i) == Commits[i].author = "author:null" \/ Commits[i].author = "user:null"

\* C13: when a commit the detector took, the first or a later one, has an
\* absent author or user, the detector raises no TypeError, and when it
\* returns it returns true.
C13_AbsentAuthorMeansModified ==
  (\E i \in DOMAIN Commits : AuthorAbsent(i)) =>
    /\ thrown # "TypeError"
    /\ (DetectorReturned => isModified = "true")

\* --------------------------------------------------------- gate order
\* one of preconditions 1 to 5 fails
EarlyPreconditionFails ==
  \/ mergeableState # "MERGEABLE"
  \/ merged = TRUE
  \/ (mergeStateStatus # "undefined" /\ mergeStateStatus # "CLEAN")
  \/ pullRequestState # "OPEN"
  \/ titleAllowed = FALSE

\* the reason of the first of preconditions 1 to 5 that fails, in the order
\* the claim numbers them
FirstFailingReason ==
  CASE mergeableState # "MERGEABLE" -> "notMergeable"
    [] mergeableState = "MERGEABLE" /\ merged = TRUE -> "alreadyMerged"
    [] mergeableState = "MERGEABLE" /\ merged = FALSE
       /\ mergeStateStatus \notin {"undefined", "CLEAN"} -> "notClean"
    [] mergeableState = "MERGEABLE" /\ merged = FALSE
       /\ mergeStateStatus \in {"undefined", "CLEAN"}
       /\ pullRequestState # "OPEN" -> "notOpen"
    [] OTHER -> "presetDisallowed"

\* the log entries that state a skip reason
SkipEntries ==
  { i \in DOMAIN logs : logs[i].message \in EarlySkipReasons \cup {"notByAuthor"} }

\* the detector has been called: a commit query, a commit, or a verdict exists
DetectorInvoked ==
  \/ pc \in {"first", "loop"}
  \/ queries # <<>>
  \/ yielded # <<>>
  \/ isModified # "pending"
  \/ thrown # "none"

\* C14: once the gate has run, if one of preconditions 1-5 fails or
\* enabledForManualChanges is true, the detector was not invoked and no commit
\* query was issued; if one of preconditions 1-5 fails, the run is over with
\* exactly one log entry, the skip reason of the first failing precondition,
\* and no mutation; and no run logs more than one skip reason.
C14_FirstFailureWins ==
  /\ (pc # "tryMerge" /\ (EarlyPreconditionFails \/ enabledForManualChanges)) =>
       ~DetectorInvoked
  /\ (pc # "tryMerge" /\ EarlyPreconditionFails) =>
       /\ pc = "done"
       /\ outcome = "returned"
       /\ logs = <<Log("info", FirstFailingReason)>>
       /\ mutations = <<>>
  /\ Cardinality(SkipEntries) <= 1

\* preconditions 1, 2 and 3 all fail: only the first one is reported
C14_Witness ==
  /\ pc = "done"
  /\ mergeableState = "CONFLICTING"
  /\ merged = TRUE
  /\ mergeStateStatus = "BLOCKED"
  /\ logs = <<Log("info", "notMergeable")>>
  /\ queries = <<>>

\* ------------------------------------------------------------- backoff
\* C15: the i-th delay of a run follows the failed attempt numbered
\* retryCount = i and lasts retryCount ^ EXPONENTIAL_BACKOFF * MINIMUM_WAIT_TIME:
\* the first lasts MINIMUM_WAIT_TIME, the second 2 ^ EXPONENTIAL_BACKOFF *
\* MINIMUM_WAIT_TIME, each is strictly longer than the one before, and the
\* "Retrying in" message states it.
C15_BackoffDelay ==
  \A i \in DOMAIN delays :
    /\ i <= Len(results)
    /\ Failed(results[i])
    /\ mutations[i].retryCount = i
    /\ delays[i] = (mutations[i].retryCount ^ EXPONENTIAL_BACKOFF) * MINIMUM_WAIT_TIME
    /\ (i = 1 => delays[i] = MINIMUM_WAIT_TIME)
    /\ (i = 2 => delays[i] = (2 ^ EXPONENTIAL_BACKOFF) * MINIMUM_WAIT_TIME)
    /\ (i > 1 => delays[i] > delays[i - 1])
    /\ \E j \in DOMAIN logs :
         logs[j].message = "retrying" /\ logs[j].count = delays[i]

\* two delays were taken in one run: 1000 then 4000
C15_Witness ==
  /\ Len(delays) = 2
  /\ delays[1] = 1000
  /\ delays[2] = 4000
  /\ delays[2] > delays[1]
  /\ Len(mutations) = 3

\* ------------------------------------------------------------- payload
\* C16: every mutation call of a run carries the variant, the commitHeadline,
\* the pullRequestId and the maximumRetries of the first call, which are the
\* ones tryMerge handed over; the calls are numbered retryCount = 1, 2, ...
\* in steps of one; and while the engine runs, the details object differs
\* from the one tryMerge built in retryCount only.
C16_PayloadUnchanged ==
  /\ \A i \in DOMAIN mutations :
       /\ mutations[i].mutation = mutations[1].mutation
       /\ mutations[i].commitHeadline = mutations[1].commitHeadline
       /\ mutations[i].pullRequestId = mutations[1].pullRequestId
       /\ mutations[i].maximumRetries = mutations[1].maximumRetries
       /\ mutations[i].retryCount = i
       /\ mutations[i].commitHeadline = commitMessageHeadline
       /\ mutations[i].pullRequestId = pullRequestId
       /\ mutations[i].maximumRetries = maximumRetries
  /\ retryCount >= 1 =>
       /\ details.commitHeadline = commitMessageHeadline
       /\ details.pullRequestId = pullRequestId
       /\ details.maximumRetries = maximumRetries
       /\ reviewEdge = (IF Len(reviewEdges) = 0 THEN "undefined" ELSE reviewEdges[1])
       /\ retryCount \in {Len(mutations), Len(mutations) + 1}

\* the third attempt of a run carries the payload of the pull request
C16_Witness ==
  /\ Len(mutations) = 3
  /\ commitMessageHeadline = "Bump b"
  /\ pullRequestId = "PR_2"
  /\ mutations[3].commitHeadline = "Bump b"
  /\ mutations[3].pullRequestId = "PR_2"
  /\ mutations[3].retryCount = 3

\* -------------------------------------------------------- merge method
\* C17: the merge method is resolved once per run: however many attempts
\* were made, parseInputMergeMethod was called exactly once.
C17_MergeMethodResolvedOnce ==
  Len(mutations) >= 1 => configReads = 1

\* ------------------------------------------------------ one at a time
\* C18: at most one mutation call is in flight; every call but the one in
\* flight has settled, and every call before the last failed; while a call
\* is in flight or the run is over, the delays taken number one less than the
\* calls, and while the engine waits or is about to call again, every call
\* so far was followed by one delay.
C18_OneAttemptAtATime ==
  /\ inFlight \in {0, 1}
  /\ (inFlight = 1) = (pc = "mutation")
  /\ Len(results) = Len(mutations) - inFlight
  /\ \A k \in 1 .. Len(mutations) - 1 : k <= Len(results) /\ results[k] # <<"ok">>
  /\ (mutations # <<>> /\ pc \in {"mutation", "done"}) =>
       Len(delays) = Len(mutations) - 1
  /\ pc = "delay" => Len(delays) = Len(mutations) /\ results[Len(results)] # <<"ok">>
  /\ pc = "merge" => Len(delays) = Len(mutations)

\* three attempts, two delays, the run over
C18_Witness ==
  /\ pc = "done"
  /\ Len(mutations) = 3
  /\ Len(results) = 3
  /\ Len(delays) = 2
  /\ inFlight = 0

\* --------------------------------------------------------- termination
\* max(maximumRetries, 0) + 1
MostAttempts == (IF maximumRetries > 0 THEN maximumRetries ELSE 0) + 1

\* C19: for every maximumRetries, negative ones included, and every sequence
\* of executor outcomes, the run ends; it never makes more than
\* max(maximumRetries, 0) + 1 mutation calls and has made at least one when it
\* ends; with maximumRetries <= 0 the first attempt is the only one: once it
\* has settled the run is over without a delay, also when it failed with the
\* transient message.
C19_TerminatesWithinBound ==
  /\ <>(pc = "done")
  /\ [](Len(mutations) <= MostAttempts)
  /\ [](pc = "done" => Len(mutations) >= 1)
  /\ []((maximumRetries <= 0 /\ results # <<>>) =>
          /\ pc = "done"
          /\ Len(mutations) = 1
          /\ Len(results) = 1
          /\ delays = <<>>)

\* maximumRetries negative: the transient failure of the only attempt ended
\* the run
C19_Witness ==
  /\ maximumRetries = -2
  /\ pc = "done"
  /\ Len(mutations) = 1
  /\ Len(results) = 1
  /\ \E i \in DOMAIN results[1] : results[1][i] = "Base branch was modified."
  /\ delays = <<>>

\* ------------------------------------------------------- gave-up report
\* the positions in the log of the entries with message m
Entries(m) == { i \in DOMAIN logs : logs[i].message = m }

\* the run is over and its last mutation call failed
LastAttemptFailed == pc = "done" /\ results # <<>> /\ results[Len(results)] # <<"ok">>

\* C20: a run whose last attempt failed has logged the gave-up report exactly
\* once, as its last two entries: the must-rebase info message, then the debug
\* entry with the error of that last attempt, whose retryCount is the number
\* of attempts made.  In every other state, a success of the last attempt
\* included, the log holds neither entry.  A retries-exhausted entry exists
\* only when the last attempt failed with the transient message and
\* retryCount > maximumRetries; it states that retryCount and occurs once.
C20_GaveUpReportedOnce ==
  /\ LastAttemptFailed =>
       /\ Cardinality(Entries("mustRebase")) = 1
       /\ Cardinality(Entries("originalError")) = 1
       /\ logs[Len(logs) - 1] = [level |-> "info", message |-> "mustRebase",
                                 count |-> 0, error |-> <<>>]
       /\ logs[Len(logs)] = [level |-> "debug", message |-> "originalError",
                             count |-> 0, error |-> results[Len(results)]]
       /\ retryCount = Len(results)
  /\ ~LastAttemptFailed =>
       Entries("mustRebase") = {} /\ Entries("originalError") = {}
  /\ \A i \in Entries("retriesExhausted") :
       /\ LastAttemptFailed
       /\ \E j \in DOMAIN results[Len(results)] :
            results[Len(results)][j] = "Base branch was modified."
       /\ retryCount > maximumRetries
       /\ logs[i].count = retryCount
       /\ logs[i].level = "info"
       /\ Entries("retriesExhausted") = {i}

\* two transient failures with maximumRetries = 1: retries exhausted, then the
\* gave-up report of the second attempt
C20_Witness ==
  /\ LastAttemptFailed
  /\ maximumRetries = 1
  /\ Len(results) = 2
  /\ Entries("retriesExhausted") # {}
  /\ Entries("mustRebase") # {}
  /\ logs[Len(logs)].error = results[2]

====
